---- MODULE Spec2Model ----
(***************************************************************************)
(* The CAPTCHA validator of src/src/components/CaptchaValidator.tsx: the   *)
(* state of one CaptchaValidator instance (one verification session), its  *)
(* three handlers, and the controls through which the rendered views       *)
(* (CameraCapture, ShapeValidation, ValidationResult) invoke them.         *)
(*                                                                         *)
(* The specifications share the handlers:                                  *)
(*   Spec              the handlers are invoked through the rendered       *)
(*                     controls only (what a user of the component can do);*)
(*   SpecCollaborator  a caller that respects the phase but may submit     *)
(*                     the empty selection;                                *)
(*   SpecHandlers      onSubmit and onRetry are invoked in any state (the  *)
(*                     contract of the handlers themselves);               *)
(*   SpecView          Spec with the render of ShapeValidation and its     *)
(*                     watermark plan, for sessions of a single attempt;   *)
(*   SpecLoop          Spec with handleCameraCapture taken one loop        *)
(*                     iteration at a time;                                *)
(*   SpecLive          Spec under a user who keeps acting: every rendered  *)
(*                     control is eventually used;                         *)
(*   SpecLists         submissions of lists in any order and with a        *)
(*                     repeated entry, for sessions of a single attempt;   *)
(*   SpecClicks        the selection of ShapeValidation built by clicks    *)
(*                     on the sectors, for sessions of a single attempt.   *)
(***************************************************************************)
EXTENDS Integers, Sequences, FiniteSets

VARIABLES
    currentStep,        \* useState<CaptchaStep>('camera')
    capturedData,       \* useState<CapturedData | null>(null)
    challenge,          \* useState<ValidationChallenge | null>(null)
    validationSuccess,  \* useState<boolean>(false)
    attemptCount,       \* useState<number>(0)
    isBlocked,          \* useState<boolean>(false)
    maxAttempts,        \* prop, fixed for the session
    enableColorTint,    \* prop, fixed for the session
    completions,        \* the calls of the onComplete prop made so far, in order
    log,                \* the last record the handlers wrote with console.log
    shapeValidation,    \* the mounted ShapeValidation: its memoized watermarkData
    viewSelection,      \* the mounted ShapeValidation: its selectedSectors state
    capture             \* the locals of a handleCameraCapture call inside its loop

vars == <<currentStep, capturedData, challenge, validationSuccess, attemptCount,
          isBlocked, maxAttempts, enableColorTint, completions, log,
          shapeValidation, viewSelection, capture>>

----------------------------------------------------------------------------
(* Bounds of the model *)

\* maxAttempts is drawn from 1..MaxMaxAttempts
MaxMaxAttempts == 3

\* the random source returns PoolSize sector indices, from the largest
\* one-digit index upward (so that one- and two-digit indices mix)
PoolSize == 5

\* an arbitrary caller (SpecHandlers) stops submitting at this attemptCount
MaxCalls == 2

\* the sector draws of one capture repeat an earlier draw at most this often
MaxRepeats == 1

----------------------------------------------------------------------------
(* Program constants *)

NumSectors == 16        \* Math.floor(Math.random() * 16)
MinCorrectSectors == 2  \* Math.floor(Math.random() * 4) + 2
CorrectSectorsSpan == 4
Radix == 10             \* Array.prototype.sort compares decimal strings

shapes == <<"triangle", "square", "circle">>
colors == <<"red", "green", "blue">>

Undefined == "undefined"
NullData == "null"
NullChallenge == [shape |-> "null", color |-> "null", correctSectors |-> <<>>]

Range(arr) == {arr[i] : i \in DOMAIN arr}

\* Array.prototype.includes
Includes(arr, x) == \E i \in DOMAIN arr : arr[i] = x

\* arr[i] of a zero-based array: undefined outside its indices
At(arr, i) == IF i \in 0 .. (Len(arr) - 1) THEN arr[i + 1] ELSE Undefined

----------------------------------------------------------------------------
(* Math.random(): the model's random source returns the multiples of       *)
(* 1/RandomDenominator in [0, 1); a random value is kept as its numerator. *)

RandomDenominator == NumSectors
RandomValues == 0 .. (RandomDenominator - 1)

\* mutant: Math.round for Math.floor
RandomIndexRounded(r, size) == (2 * r * size + RandomDenominator) \div (2 * RandomDenominator)

\* Math.floor(Math.random() * size)
RandomIndex(r, size) == (r * size) \div RandomDenominator

----------------------------------------------------------------------------
(* The default sort of Array.prototype.sort(): elements are compared as    *)
(* strings, by UTF-16 code unit; for decimal digits that is digit order.   *)

DecimalString(n) ==
    IF n < Radix THEN <<n>> ELSE <<n \div Radix, n % Radix>>

RECURSIVE StringLess(_, _)
StringLess(a, b) ==
    IF a = <<>> THEN b # <<>>
    ELSE IF b = <<>> THEN FALSE
    ELSE IF Head(a) # Head(b) THEN Head(a) < Head(b)
    ELSE StringLess(Tail(a), Tail(b))

SortCompareLess(x, y) == StringLess(DecimalString(x), DecimalString(y))

RECURSIVE InsertSorted(_, _)
InsertSorted(arr, x) ==
    IF arr = <<>> THEN <<x>>
    ELSE IF SortCompareLess(x, Head(arr)) THEN <<x>> \o arr
    ELSE <<Head(arr)>> \o InsertSorted(Tail(arr), x)

RECURSIVE ArraySort(_)
ArraySort(arr) ==
    IF arr = <<>> THEN <<>>
    ELSE InsertSorted(ArraySort(SubSeq(arr, 1, Len(arr) - 1)), arr[Len(arr)])

----------------------------------------------------------------------------
(* Inputs *)

Sectors == 0 .. (NumSectors - 1)

\* the sector indices the random source returns in the model
SectorPool == {s \in Sectors : s >= Radix - 1 /\ s < Radix - 1 + PoolSize}

RECURSIVE Ascending(_)
Ascending(S) ==
    IF S = {} THEN <<>>
    ELSE LET m == CHOOSE x \in S : \A y \in S : x <= y
         IN <<m>> \o Ascending(S \ {m})

Reverse(arr) == [i \in 1..Len(arr) |-> arr[Len(arr) + 1 - i]]

\* duplicate-free arrays over the pool, each set in two orders
PoolArrays ==
    {Ascending(S) : S \in SUBSET SectorPool} \cup
    {Reverse(Ascending(S)) : S \in SUBSET SectorPool}

\* the random value that yields sector s
RandomOfSector(s) == CHOOSE r \in RandomValues : RandomIndex(r, NumSectors) = s

\* a draw stream with one more draw that repeats an earlier one
WithRepeat(stream) ==
    UNION {{SubSeq(stream, 1, i) \o <<stream[j]>> \o SubSeq(stream, i + 1, Len(stream)) :
               j \in 1 .. i} : i \in 1 .. (Len(stream) - 1)}

RECURSIVE WithRepeats(_, _)
WithRepeats(streams, k) ==
    IF k = 0 THEN streams
    ELSE WithRepeats(streams \cup UNION {WithRepeat(st) : st \in streams}, k - 1)

\* the streams of random values that draw the distinct sectors of a pool array
PlainStreams == {[i \in 1 .. Len(d) |-> RandomOfSector(d[i])] : d \in PoolArrays}

\* the streams of random values the sector draws consume: the distinct
\* sectors of a pool array, with up to MaxRepeats repeated draws among them
DrawStreams == WithRepeats(PlainStreams, MaxRepeats)

\* the random values drawn for the number of sectors: the quarter points
QuarterRandoms == {r \in RandomValues : (4 * r) % RandomDenominator = 0}

\* the random values drawn for a shape or a colour: the least, the middle and
\* the largest value of the random source
TableRandoms == {0, RandomDenominator \div 2, RandomDenominator - 1}

\* selections a caller may pass
AllSelections == PoolArrays

\* the Validate button is disabled while the selection is empty
ViewSelections == {sel \in AllSelections : Len(sel) # 0}

----------------------------------------------------------------------------
(* CaptchaValidator *)

\* ShapeValidation is not rendered
Unmounted == [mounted |-> FALSE, randoms |-> <<>>, watermarkData |-> <<>>]

\* no handleCameraCapture call is inside its loop
NoCapture ==
    [running |-> FALSE, data |-> NullData, selectedShape |-> Undefined,
     selectedColor |-> Undefined, numCorrectSectors |-> 0, correctSectors |-> <<>>,
     iteration |-> 0]

Init ==
    /\ currentStep = "camera"
    /\ capturedData = NullData
    /\ challenge = NullChallenge
    /\ validationSuccess = FALSE
    /\ attemptCount = 0
    /\ isBlocked = FALSE
    /\ maxAttempts \in 1..MaxMaxAttempts
    /\ enableColorTint \in BOOLEAN
    /\ completions = <<>>
    /\ log = [op |-> "none", selected |-> <<>>, result |-> FALSE]
    /\ shapeValidation = Unmounted
    /\ viewSelection = <<>>
    /\ capture = NoCapture

\* mutant: the callback is handed the stale attemptCount of the closure
onCompleteStaleCount(success, attempts) ==
    completions' = Append(completions, [success |-> success, attempts |-> attempts - 1])

\* onComplete?.(success, attempts)
onComplete(success, attempts) ==
    completions' = Append(completions, [success |-> success, attempts |-> attempts])

\* the random values drawn for the colour: none without the colour tint
ColorChoices == IF enableColorTint THEN TableRandoms ELSE {0}

\* mutant: the loop pushes every draw, repeated or not
LoopBodyNoReject(correctSectors, sector) == Append(correctSectors, sector)

\* one iteration of the rejection loop
LoopBody(correctSectors, sector) ==
    IF ~Includes(correctSectors, sector)
    THEN Append(correctSectors, sector)
    ELSE correctSectors

\* while (correctSectors.length < numCorrectSectors) over the draws; when the
\* draws run out first the loop has not ended
RECURSIVE FillLoop(_, _, _)
FillLoop(correctSectors, draws, numCorrectSectors) ==
    IF ~(Len(correctSectors) < numCorrectSectors) \/ draws = <<>>
    THEN correctSectors
    ELSE FillLoop(LoopBody(correctSectors, RandomIndex(Head(draws), NumSectors)),
                  Tail(draws), numCorrectSectors)

\* the number of correct sectors of a challenge
NumCorrectSectors(r) == RandomIndex(r, CorrectSectorsSpan) + MinCorrectSectors

\* the draws end with the draw that ends the loop
LoopEndsWith(draws, numCorrectSectors) ==
    /\ draws # <<>>
    /\ Len(FillLoop(<<>>, SubSeq(draws, 1, Len(draws) - 1), numCorrectSectors))
          < numCorrectSectors
    /\ ~(Len(FillLoop(<<>>, draws, numCorrectSectors)) < numCorrectSectors)

\* lines 79-87: the challenge is built from the locals and stored
storeChallenge(data, selectedShape, selectedColor, correctSectors) ==
    /\ capturedData' = data
    /\ challenge' = [shape |-> selectedShape,
                     color |-> selectedColor,
                     correctSectors |-> ArraySort(correctSectors)]
    /\ currentStep' = "validation"
    /\ log' = [op |-> "challenge", selected |-> <<>>, result |-> FALSE]
    /\ UNCHANGED <<validationSuccess, attemptCount, isBlocked, maxAttempts,
                   enableColorTint, completions, shapeValidation, viewSelection>>

\* lines 65-66: the target shape and colour
SelectedShape(rShape) == At(shapes, RandomIndex(rShape, Len(shapes)))
SelectedColor(rColor) ==
    IF enableColorTint THEN At(colors, RandomIndex(rColor, Len(colors))) ELSE Undefined

handleCameraCapture(data, rShape, rColor, rCount, draws) ==
    LET numCorrectSectors == NumCorrectSectors(rCount)
        correctSectors == FillLoop(<<>>, draws, numCorrectSectors)
    IN /\ storeChallenge(data, SelectedShape(rShape), SelectedColor(rColor),
                         correctSectors)
       /\ UNCHANGED capture

\* mutant: one-sided inclusion, a selection scores when it holds no wrong sector
isCorrectSubsetOnly(selectedSectors, correctSectors) ==
    \A i \in DOMAIN selectedSectors : Includes(correctSectors, selectedSectors[i])

\* mutant: the two inclusions without the comparison of the lengths
isCorrectNoLength(selectedSectors, correctSectors) ==
    /\ \A i \in DOMAIN selectedSectors : Includes(correctSectors, selectedSectors[i])
    /\ \A j \in DOMAIN correctSectors : Includes(selectedSectors, correctSectors[j])

isCorrect(selectedSectors, correctSectors) ==
    /\ Len(selectedSectors) = Len(correctSectors)
    /\ \A i \in DOMAIN selectedSectors : Includes(correctSectors, selectedSectors[i])
    /\ \A j \in DOMAIN correctSectors : Includes(selectedSectors, correctSectors[j])

\* what the closure of handleValidationComplete can read besides its argument
Closure ==
    [challenge |-> challenge, attemptCount |-> attemptCount, maxAttempts |-> maxAttempts]

\* mutant: while tolerance is left, wrong or missing sectors are forgiven
scoreTolerant(closure, selectedSectors) ==
    LET selected == Range(selectedSectors)
        correct == Range(closure.challenge.correctSectors)
        tolerance == IF closure.maxAttempts - closure.attemptCount >= 1
                     THEN closure.maxAttempts - closure.attemptCount
                     ELSE 1
    IN Cardinality((selected \ correct) \cup (correct \ selected)) < tolerance

\* lines 102-106: the score of a submission, evaluated in the closure
score(closure, selectedSectors) ==
    isCorrect(selectedSectors, closure.challenge.correctSectors)

\* mutant: > for >=, the block comes one failure late
AttemptsExhaustedLate(newAttemptCount) == newAttemptCount > maxAttempts

\* mutant: the stale attemptCount is compared, the block comes one failure early
AttemptsExhaustedEarly(newAttemptCount) == newAttemptCount + 1 >= maxAttempts

AttemptsExhausted(newAttemptCount) == newAttemptCount >= maxAttempts

handleValidationComplete(selectedSectors) ==
    IF challenge = NullChallenge
    THEN UNCHANGED vars
    ELSE LET newAttemptCount == attemptCount + 1
             correct == score(Closure, selectedSectors)
         IN /\ attemptCount' = newAttemptCount
            /\ validationSuccess' = correct
            /\ log' = [op |-> "attempt", selected |-> selectedSectors, result |-> correct]
            /\ currentStep' = "result"
            /\ IF correct
               THEN /\ onComplete(TRUE, newAttemptCount)
                    /\ UNCHANGED isBlocked
               ELSE IF AttemptsExhausted(newAttemptCount)
               THEN /\ isBlocked' = TRUE
                    /\ onComplete(FALSE, newAttemptCount)
               ELSE UNCHANGED <<isBlocked, completions>>
            /\ shapeValidation' = Unmounted
            /\ viewSelection' = <<>>
            /\ UNCHANGED <<capturedData, challenge, maxAttempts, enableColorTint,
                           capture>>

\* mutant: a retry starts a fresh attempt budget
handleRetryResetsCount ==
    /\ currentStep' = "camera"
    /\ capturedData' = NullData
    /\ challenge' = NullChallenge
    /\ validationSuccess' = FALSE
    /\ attemptCount' = 0
    /\ log' = [op |-> "retry", selected |-> <<>>, result |-> FALSE]
    /\ shapeValidation' = Unmounted
    /\ viewSelection' = <<>>
    /\ UNCHANGED <<isBlocked, maxAttempts, enableColorTint, completions, capture>>

\* mutant: a retry keeps the old challenge
handleRetryKeepsChallenge ==
    /\ currentStep' = "camera"
    /\ capturedData' = NullData
    /\ validationSuccess' = FALSE
    /\ log' = [op |-> "retry", selected |-> <<>>, result |-> FALSE]
    /\ shapeValidation' = Unmounted
    /\ viewSelection' = <<>>
    /\ UNCHANGED <<challenge, attemptCount, isBlocked, maxAttempts, enableColorTint,
                   completions, capture>>

handleRetry ==
    /\ currentStep' = "camera"
    /\ capturedData' = NullData
    /\ challenge' = NullChallenge
    /\ validationSuccess' = FALSE
    /\ log' = [op |-> "retry", selected |-> <<>>, result |-> FALSE]
    /\ shapeValidation' = Unmounted
    /\ viewSelection' = <<>>
    /\ UNCHANGED <<attemptCount, isBlocked, maxAttempts, enableColorTint, completions,
                   capture>>

----------------------------------------------------------------------------
(* What the component renders *)

Max(a, b) == IF a >= b THEN a ELSE b

\* mutant: the attempts left after the submission being made
toleranceLevelAfterSubmit == Max(1, maxAttempts - attemptCount - 1)

\* <ShapeValidation toleranceLevel={Math.max(1, maxAttempts - attemptCount)}>
toleranceLevel == Max(1, maxAttempts - attemptCount)

canRetry == ~isBlocked /\ ~validationSuccess /\ attemptCount < maxAttempts

\* mutant: the button is offered while attempts remain, whatever the outcome
RetryButtonWhileAttemptsRemain == attemptCount < maxAttempts

\* mutant: the button is offered after every failure, blocked or not
RetryButtonAfterFailure == ~validationSuccess

\* ValidationResult shows the Try Again button only in its third branch
RetryButtonShown == ~validationSuccess /\ ~isBlocked /\ canRetry

\* the phase of the session, read off the step and the flags the way
\* ValidationResult reads them
Phase ==
    CASE currentStep = "camera" -> "awaiting-capture"
      [] currentStep = "validation" -> "awaiting-selection"
      [] OTHER ->
            IF validationSuccess THEN "success"
            ELSE IF isBlocked THEN "blocked"
            ELSE IF canRetry THEN "retry-available"
            ELSE "exhausted"

\* a call of handleCameraCapture whose sector draws are one of the streams
CaptureFrom(streams) ==
    \E rCount \in QuarterRandoms : \E draws \in streams :
        /\ LoopEndsWith(draws, NumCorrectSectors(rCount))
        /\ \E rShape \in TableRandoms, rColor \in ColorChoices :
              handleCameraCapture("frame", rShape, rColor, rCount, draws)

AnyCapture == CaptureFrom(DrawStreams)

\* <CameraCapture onCapture={handleCameraCapture} />
Capture ==
    /\ currentStep = "camera"
    /\ AnyCapture

\* <ShapeValidation onValidate={handleValidationComplete} />, its Validate button
Validate ==
    /\ currentStep = "validation"
    /\ capturedData # NullData
    /\ challenge # NullChallenge
    /\ \E sel \in ViewSelections : handleValidationComplete(sel)

\* <ValidationResult onRetry={handleRetry} />, its Try Again button
TryAgain ==
    /\ currentStep = "result"
    /\ RetryButtonShown
    /\ handleRetry

Next == Capture \/ Validate \/ TryAgain

Spec == Init /\ [][Next]_vars

----------------------------------------------------------------------------
(* The handlers under a collaborator that respects the phase but submits   *)
(* any set of sectors, the empty one included.                             *)

Submit ==
    /\ currentStep = "validation"
    /\ challenge # NullChallenge
    /\ \E sel \in AllSelections : handleValidationComplete(sel)

NextCollaborator == Capture \/ Submit \/ TryAgain

SpecCollaborator == Init /\ [][NextCollaborator]_vars

----------------------------------------------------------------------------
(* The handlers under a caller that does not respect the phase: onSubmit   *)
(* and onRetry are invoked in any state, with any selection; captures      *)
(* still come from the mounted CameraCapture.                              *)

CallValidationComplete ==
    /\ attemptCount < MaxCalls
    /\ \E sel \in AllSelections : handleValidationComplete(sel)

CallRetry == handleRetry

NextHandlers == Capture \/ CallValidationComplete \/ CallRetry

SpecHandlers == Init /\ [][NextHandlers]_vars

----------------------------------------------------------------------------
(* ShapeValidation (src/src/components/ShapeValidation.tsx): the watermark  *)
(* plan it memoizes when it is rendered for a challenge.  SpecView adds the *)
(* render of the view to sessions of a single attempt; the specifications   *)
(* above keep the view to the selections it can submit.                     *)

\* for (let i = 0; i < 16; i++)
GridSize == 16

\* Math.random() < 0.3
WatermarkNoise(r) == 10 * r < 3 * RandomDenominator

\* arr[i] = v on a zero-based array (the array grows when i is past its end)
SetAt(arr, i, v) ==
    [k \in 1 .. Max(Len(arr), i + 1) |->
        IF k = i + 1 THEN v ELSE IF k <= Len(arr) THEN arr[k] ELSE Undefined]

\* mutant: a decoy that shows the target's shape and colour loses its watermark
SectorEntryFiltered(i, ch, randoms) ==
    LET shape == At(shapes, RandomIndex(randoms.shape, Len(shapes)))
        color == At(colors, RandomIndex(randoms.color, Len(colors)))
    IN [sector |-> i,
        shape |-> shape,
        color |-> color,
        hasWatermark |-> \/ Includes(ch.correctSectors, i)
                         \/ /\ WatermarkNoise(randoms.noise)
                            /\ ~(shape = ch.shape /\ color \in {ch.color, "red"})]

\* lines 44-51: the entry pushed for sector i
SectorEntry(i, ch, randoms) ==
    [sector |-> i,
     shape |-> At(shapes, RandomIndex(randoms.shape, Len(shapes))),
     color |-> At(colors, RandomIndex(randoms.color, Len(colors))),
     hasWatermark |-> Includes(ch.correctSectors, i) \/ WatermarkNoise(randoms.noise)]

\* mutant: the colour of the challenge without the default
TargetColorNoDefault(ch) == ch.color

\* challenge.color || 'red'
TargetColor(ch) == IF ch.color # Undefined THEN ch.color ELSE "red"

\* challenge.correctSectors.forEach(sectorIndex => data[sectorIndex] = ...)
RECURSIVE ForEachCorrect(_, _, _)
ForEachCorrect(data, ch, k) ==
    IF k > Len(ch.correctSectors)
    THEN data
    ELSE LET sectorIndex == ch.correctSectors[k]
         IN ForEachCorrect(SetAt(data, sectorIndex,
                                 [sector |-> sectorIndex,
                                  shape |-> ch.shape,
                                  color |-> TargetColor(ch),
                                  hasWatermark |-> TRUE]),
                           ch, k + 1)

\* the useMemo of watermarkData; every sector draws the same random values
watermarkData(ch, randoms) ==
    ForEachCorrect([k \in 1 .. GridSize |-> SectorEntry(k - 1, ch, randoms)], ch, 1)

\* the render that follows a capture mounts ShapeValidation
RenderShapeValidation ==
    /\ currentStep = "validation"
    /\ capturedData # NullData
    /\ challenge # NullChallenge
    /\ ~shapeValidation.mounted
    /\ \E rNoise \in TableRandoms, rShape \in TableRandoms, rColor \in TableRandoms :
          LET randoms == [noise |-> rNoise, shape |-> rShape, color |-> rColor]
          IN shapeValidation' = [mounted |-> TRUE,
                                 randoms |-> randoms,
                                 watermarkData |-> watermarkData(challenge, randoms)]
    /\ UNCHANGED <<currentStep, capturedData, challenge, validationSuccess,
                   attemptCount, isBlocked, maxAttempts, enableColorTint,
                   completions, log, viewSelection, capture>>

\* the Validate button of the mounted view
ValidateRendered == shapeValidation.mounted /\ Validate

InitView == Init /\ maxAttempts = 1

NextView == Capture \/ RenderShapeValidation \/ ValidateRendered

SpecView == InitView /\ [][NextView]_vars

----------------------------------------------------------------------------
(* handleCameraCapture iteration by iteration: SpecLoop replaces the        *)
(* capture of Spec by the entry into the handler, the iterations of its     *)
(* while loop and the statements after the loop.  The handler runs to       *)
(* completion once called, so an enabled iteration or exit is taken; which  *)
(* value Math.random() returns in an iteration is not constrained.          *)

\* the random values a sector draw returns
LoopRandoms == {RandomOfSector(s) : s \in SectorPool}

\* lines 57-69: the handler is entered and the locals are chosen
BeginCapture ==
    /\ currentStep = "camera"
    /\ ~capture.running
    /\ \E rShape \in TableRandoms, rColor \in ColorChoices, rCount \in QuarterRandoms :
          capture' = [running |-> TRUE,
                      data |-> "frame",
                      selectedShape |-> SelectedShape(rShape),
                      selectedColor |-> SelectedColor(rColor),
                      numCorrectSectors |-> NumCorrectSectors(rCount),
                      correctSectors |-> <<>>,
                      iteration |-> 0]
    /\ UNCHANGED <<currentStep, capturedData, challenge, validationSuccess,
                   attemptCount, isBlocked, maxAttempts, enableColorTint,
                   completions, log, shapeValidation, viewSelection>>

\* lines 71-77: one iteration of the while loop; iteration is the parity of
\* the number of iterations made
LoopIteration ==
    /\ capture.running
    /\ Len(capture.correctSectors) < capture.numCorrectSectors
    /\ \E r \in LoopRandoms :
          capture' = [capture EXCEPT
                        !.correctSectors = LoopBody(@, RandomIndex(r, NumSectors)),
                        !.iteration = 1 - @]
    /\ UNCHANGED <<currentStep, capturedData, challenge, validationSuccess,
                   attemptCount, isBlocked, maxAttempts, enableColorTint,
                   completions, log, shapeValidation, viewSelection>>

\* lines 79-87: the loop condition is false, the challenge is stored
LoopExit ==
    /\ capture.running
    /\ ~(Len(capture.correctSectors) < capture.numCorrectSectors)
    /\ storeChallenge(capture.data, capture.selectedShape, capture.selectedColor,
                      capture.correctSectors)
    /\ capture' = NoCapture

NextLoop == BeginCapture \/ LoopIteration \/ LoopExit \/ Validate \/ TryAgain

SpecLoop ==
    /\ Init
    /\ [][NextLoop]_vars
    /\ WF_vars(LoopIteration)
    /\ WF_vars(LoopExit)

----------------------------------------------------------------------------
(* SpecLive: the rendered controls under a user who keeps capturing,        *)
(* submitting and retrying whenever the control is there.  The user submits *)
(* the exact target or misses its first sector, and the sector draws of a   *)
(* capture do not repeat.  The session does not stay in the camera step for *)
(* ever: the user captures and the handler returns, that is the random      *)
(* source does not repeat drawn sectors for ever.                           *)

\* what the user of SpecLive submits for the challenge on display
LiveSelections == {challenge.correctSectors, Tail(challenge.correctSectors)}

ValidateLive ==
    /\ currentStep = "validation"
    /\ capturedData # NullData
    /\ challenge # NullChallenge
    /\ \E sel \in LiveSelections : handleValidationComplete(sel)

CaptureLive ==
    /\ currentStep = "camera"
    /\ CaptureFrom(PlainStreams)

NextLive == CaptureLive \/ ValidateLive \/ TryAgain

SpecLive ==
    /\ Init
    /\ [][NextLive]_vars
    /\ []<>(currentStep # "camera")
    /\ WF_vars(ValidateLive)
    /\ WF_vars(TryAgain)

----------------------------------------------------------------------------
(* SpecLists: handleValidationComplete is handed lists by a collaborator,   *)
(* in any order and with a repeated entry, in sessions of a single attempt  *)
(* without the colour tint.                                                 *)

\* every order of the members of S
RECURSIVE Orders(_)
Orders(S) ==
    IF S = {} THEN {<<>>}
    ELSE UNION {{<<x>> \o rest : rest \in Orders(S \ {x})} : x \in S}

\* a pool array followed by one of its entries again
RepeatedLists == UNION {{d \o <<d[j]>> : j \in DOMAIN d} : d \in PoolArrays}

SubmittedLists == UNION {Orders(S) : S \in SUBSET SectorPool} \cup RepeatedLists

InitSingle == Init /\ maxAttempts = 1 /\ ~enableColorTint

SubmitList ==
    /\ currentStep = "validation"
    /\ challenge # NullChallenge
    /\ \E sel \in SubmittedLists : handleValidationComplete(sel)

NextLists == CaptureLive \/ SubmitList

SpecLists == InitSingle /\ [][NextLists]_vars

----------------------------------------------------------------------------
(* SpecClicks: the selection of the mounted ShapeValidation is built by     *)
(* clicks on the sectors and submitted with the Validate button, in         *)
(* sessions of a single attempt without the colour tint.                    *)

\* mutant: a click always adds the sector
toggleSectorAppend(prev, sectorIndex) == Append(prev, sectorIndex)

\* the updater of setSelectedSectors in handleSectorClick
toggleSector(prev, sectorIndex) ==
    IF Includes(prev, sectorIndex)
    THEN LET Keep(index) == index # sectorIndex IN SelectSeq(prev, Keep)
    ELSE Append(prev, sectorIndex)

handleSectorClick(sectorIndex) ==
    /\ viewSelection' = toggleSector(viewSelection, sectorIndex)
    /\ UNCHANGED <<currentStep, capturedData, challenge, validationSuccess,
                   attemptCount, isBlocked, maxAttempts, enableColorTint,
                   completions, log, shapeValidation, capture>>

\* the sector grid of the rendered view
SectorClick ==
    /\ currentStep = "validation"
    /\ capturedData # NullData
    /\ challenge # NullChallenge
    /\ \E sectorIndex \in SectorPool : handleSectorClick(sectorIndex)

\* <Button disabled={selectedSectors.length === 0}>
ValidateButtonEnabled == Len(viewSelection) # 0

\* the Validate button of the rendered view: handleValidate
ValidateClicked ==
    /\ currentStep = "validation"
    /\ capturedData # NullData
    /\ challenge # NullChallenge
    /\ ValidateButtonEnabled
    /\ handleValidationComplete(viewSelection)

\* a capture whose loop draws distinct sectors and whose shape is the first
\* of the table
CaptureFirstShape ==
    /\ currentStep = "camera"
    /\ \E rCount \in QuarterRandoms : \E draws \in PlainStreams :
          /\ LoopEndsWith(draws, NumCorrectSectors(rCount))
          /\ handleCameraCapture("frame", 0, 0, rCount, draws)

NextClicks == CaptureFirstShape \/ SectorClick \/ ValidateClicked

SpecClicks == InitSingle /\ [][NextClicks]_vars

----------------------------------------------------------------------------
(* Properties *)

Scored == log.op = "attempt"
SelectedSet == Range(log.selected)
CorrectSet == Range(challenge.correctSectors)
TerminalPhases == {"success", "blocked"}

\* C1: a scored submission is marked correct exactly when the submitted
\* sectors and the challenge's correct sectors are the same set; a selection
\* that adds, omits or substitutes a sector, or is empty, is marked incorrect.
C1_ScoringIsSetEquality ==
    Scored => (validationSuccess <=> SelectedSet = CorrectSet)

\* a selection of the right size with one sector substituted was scored
C1_Witness ==
    /\ Scored
    /\ Len(log.selected) = Len(challenge.correctSectors)
    /\ Cardinality(SelectedSet \cap CorrectSet) = Len(challenge.correctSectors) - 1
    /\ ~validationSuccess

\* C2: a submission raises attemptCount by exactly 1, and no other step of
\* the session (capture, retry) changes it.
C2_AttemptMonotonic ==
    [][IF currentStep = "validation" /\ currentStep' = "result"
       THEN attemptCount' = attemptCount + 1
       ELSE attemptCount' = attemptCount]_vars

\* back at the camera after two submissions and two retries
C2_Witness == currentStep = "camera" /\ attemptCount = 2 /\ log.op = "retry"

\* C3: while every submission has failed, the result is retry-available with
\* no completion reported as long as attemptCount < maxAttempts, and at
\* attemptCount = maxAttempts it is blocked with the single report
\* onComplete(false, maxAttempts).
C3_BlockingBoundary ==
    /\ ~validationSuccess /\ attemptCount < maxAttempts => completions = <<>>
    /\ currentStep = "result" /\ ~validationSuccess /\ attemptCount < maxAttempts
          => Phase = "retry-available"
    /\ currentStep = "result" /\ ~validationSuccess /\ attemptCount >= maxAttempts
          => /\ attemptCount = maxAttempts
             /\ Phase = "blocked"
             /\ completions = <<[success |-> FALSE, attempts |-> maxAttempts]>>

\* the third failure of a three-attempt session
C3_Witness ==
    /\ maxAttempts = 3
    /\ attemptCount = 3
    /\ Phase = "blocked"
    /\ completions = <<[success |-> FALSE, attempts |-> 3]>>

\* C4: a correct submission puts the session in success with the single
\* report onComplete(true, attemptCount), and in success no control is
\* enabled any more.
C4_SuccessShortCircuit ==
    /\ Scored /\ SelectedSet = CorrectSet => Phase = "success"
    /\ Phase = "success"
          => /\ completions = <<[success |-> TRUE, attempts |-> attemptCount]>>
             /\ ~ENABLED Next

\* success on the first attempt of a three-attempt session
C4_Witness ==
    /\ maxAttempts = 3
    /\ Phase = "success"
    /\ completions = <<[success |-> TRUE, attempts |-> 1]>>

\* C5: onComplete is called at most once; it has been called exactly when
\* the session is in success or blocked (never in retry-available), with the
\* outcome and the attemptCount of the submission that ended the session.
C5_CompletionSignal ==
    /\ Len(completions) <= 1
    /\ completions # <<>> <=> Phase \in TerminalPhases
    /\ completions # <<>>
          => completions[1] = [success |-> (Phase = "success"), attempts |-> attemptCount]

\* a session that ended on its second submission
C5_Witness ==
    /\ Len(completions) = 1
    /\ completions[1].attempts = 2
    /\ Phase \in TerminalPhases

\* C6: blocked only after a failed submission with attemptCount >=
\* maxAttempts; success only after an exact match; after a failed submission
\* with attemptCount < maxAttempts the result step offers the retry.
C6_PhaseInvariant ==
    /\ isBlocked
          => /\ currentStep = "result"
             /\ Scored /\ SelectedSet # CorrectSet
             /\ attemptCount >= maxAttempts
    /\ Phase = "success" => Scored /\ SelectedSet = CorrectSet
    /\ currentStep = "result" /\ SelectedSet # CorrectSet /\ attemptCount < maxAttempts
          => /\ Phase = "retry-available"
             /\ ~isBlocked /\ ~validationSuccess /\ RetryButtonShown

\* the last failure that still leaves a retry
C6_Witness ==
    /\ Phase = "retry-available"
    /\ attemptCount = maxAttempts - 1
    /\ Scored /\ SelectedSet # CorrectSet

PhaseEdges ==
    { <<"awaiting-capture", "awaiting-selection">>,
      <<"awaiting-selection", "success">>,
      <<"awaiting-selection", "blocked">>,
      <<"awaiting-selection", "retry-available">>,
      <<"retry-available", "awaiting-capture">> }

\* C7: the session starts in awaiting-capture and its phase changes only
\* along the edges of the specified state machine.
C7_PhaseMachine ==
    /\ Phase = "awaiting-capture"
    /\ [][Phase' # Phase => <<Phase, Phase'>> \in PhaseEdges]_vars

\* a second capture cycle has been entered through the retry edge
C7_Witness == Phase = "awaiting-selection" /\ attemptCount >= 1

\* C8 as claimed: handleValidationComplete invoked outside awaiting-selection
\* changes neither attemptCount, the step, the flags nor the completions.
C8_SubmitOutsideSelectionIsNoOp ==
    [][(Phase # "awaiting-selection"
          /\ \E sel \in AllSelections : handleValidationComplete(sel))
       => UNCHANGED <<attemptCount, currentStep, isBlocked, validationSuccess,
                      completions>>]_vars

\* C9 as claimed: handleRetry invoked in success or blocked leaves the
\* session as it is.
C9_RetryInTerminalIsNoOp ==
    [][(Phase \in TerminalPhases /\ handleRetry)
       => UNCHANGED <<currentStep, capturedData, challenge, validationSuccess,
                      attemptCount, isBlocked, completions>>]_vars

\* C10: a retry from retry-available leads to awaiting-capture with the
\* captured data, the challenge and the success flag cleared, and leaves
\* attemptCount, maxAttempts and the blocked flag as they were.
C10_RetryFrame ==
    [][Phase = "retry-available" /\ Phase' # Phase
       => /\ Phase' = "awaiting-capture"
          /\ capturedData' = NullData
          /\ challenge' = NullChallenge
          /\ validationSuccess' = FALSE
          /\ attemptCount' = attemptCount
          /\ maxAttempts' = maxAttempts
          /\ isBlocked' = isBlocked]_vars

\* after a retry the attempt already spent is still counted
C10_Witness ==
    /\ log.op = "retry"
    /\ challenge = NullChallenge
    /\ attemptCount = 1
    /\ maxAttempts = 2

----------------------------------------------------------------------------
\* Distinct(arr): no value occurs twice in arr
Distinct(arr) == \A i, j \in DOMAIN arr : i # j => arr[i] # arr[j]

Generated == challenge # NullChallenge

\* C11: every challenge held has between 2 and 5 correct sectors, pairwise
\* distinct, each a sector index in 0..15, whatever the random source returned
\* (repeated draws included).
C11_CorrectSectorsWellFormed ==
    Generated =>
        /\ Len(challenge.correctSectors) \in 2 .. 5
        /\ Distinct(challenge.correctSectors)
        /\ CorrectSet \subseteq 0 .. 15

C11_Witness ==
    /\ currentStep = "validation"
    /\ log.op = "challenge"
    /\ Len(challenge.correctSectors) = 5
    /\ Cardinality(CorrectSet) = 5

\* C12: the correct sectors of a challenge are stored in ascending numeric
\* order, one- and two-digit indices mixed or not.
C12_SortedAscending ==
    Generated =>
        \A i, j \in DOMAIN challenge.correctSectors :
            i < j => challenge.correctSectors[i] < challenge.correctSectors[j]

\* C18: the challenge carries a colour exactly when enableColorTint is set,
\* that colour is red, green or blue, and the shape is always triangle,
\* square or circle.
C18_ShapeAndColor ==
    Generated =>
        /\ challenge.shape \in {"triangle", "square", "circle"}
        /\ (challenge.color # Undefined) <=> enableColorTint
        /\ enableColorTint => challenge.color \in {"red", "green", "blue"}

C18_Witness ==
    /\ Generated
    /\ enableColorTint
    /\ challenge.shape = "circle"
    /\ challenge.color = "blue"

\* C14: the toleranceLevel passed to the selection view is
\* max(1, maxAttempts - attemptCount): 3 at attemptCount 0 and 1 at
\* attemptCount 2 when maxAttempts is 3; it lies in 1..maxAttempts and no step
\* of the session raises it.
C14_Tolerance ==
    /\ [](currentStep = "validation" =>
             /\ toleranceLevel \in 1 .. maxAttempts
             /\ maxAttempts - attemptCount >= 1 =>
                    toleranceLevel = maxAttempts - attemptCount
             /\ maxAttempts - attemptCount < 1 => toleranceLevel = 1
             /\ maxAttempts = 3 /\ attemptCount = 0 => toleranceLevel = 3
             /\ maxAttempts = 3 /\ attemptCount = 2 => toleranceLevel = 1)
    /\ [][toleranceLevel' <= toleranceLevel]_vars

C14_Witness ==
    /\ currentStep = "validation"
    /\ maxAttempts = 3
    /\ attemptCount = 2
    /\ toleranceLevel = 1

\* C16: a challenge is generated by a capture and only then, one per capture;
\* a submission leaves it unchanged and is scored against it; only the retry
\* discards it; attemptCount is 0 at the start of the session and never
\* returns to 0 afterwards.
C16_ChallengeLifecycle ==
    /\ attemptCount = 0 /\ ~Generated
    /\ [][/\ challenge' # challenge =>
                \/ currentStep = "camera" /\ currentStep' = "validation"
                     /\ ~Generated /\ Generated'
                \/ currentStep = "result" /\ currentStep' = "camera"
                     /\ ~Generated'
          /\ currentStep = "camera" /\ currentStep' = "validation" => Generated'
          /\ currentStep = "result" /\ currentStep' = "camera" => ~Generated'
          /\ currentStep = "validation" /\ currentStep' = "result" =>
                /\ challenge' = challenge
                /\ validationSuccess' <=> Range(log'.selected) = CorrectSet
          /\ attemptCount' = 0 => attemptCount = 0]_vars

C16_Witness ==
    /\ currentStep = "result"
    /\ attemptCount = 2
    /\ Scored /\ validationSuccess
    /\ SelectedSet = CorrectSet

\* C20: through the rendered controls attemptCount stays in 0..maxAttempts,
\* and the retry control is enabled exactly when the step is result, the last
\* submission failed, the session is not blocked and attemptCount is below
\* maxAttempts.
C20_AttemptBoundsAndRetryControl ==
    /\ attemptCount \in 0 .. maxAttempts
    /\ (ENABLED TryAgain) <=>
          /\ currentStep = "result"
          /\ Scored /\ SelectedSet # CorrectSet
          /\ ~isBlocked
          /\ attemptCount < maxAttempts

C20_Witness ==
    /\ ENABLED TryAgain
    /\ maxAttempts = 3
    /\ attemptCount = 2

\* the plan entry of sector i (zero-based)
Entry(i) == shapeValidation.watermarkData[i + 1]

\* C13: the watermark plan has exactly 16 entries, entry i is for sector i,
\* and the entry of every correct sector has a watermark with the shape of
\* the challenge and its colour, red when the challenge has none.
C13_WatermarkPlan ==
    shapeValidation.mounted =>
        /\ Len(shapeValidation.watermarkData) = 16
        /\ \A i \in 0 .. 15 : Entry(i).sector = i
        /\ \A i \in CorrectSet :
              /\ Entry(i).hasWatermark
              /\ Entry(i).shape = challenge.shape
              /\ enableColorTint => Entry(i).color = challenge.color
              /\ ~enableColorTint => Entry(i).color = "red"

C13_Witness ==
    /\ shapeValidation.mounted
    /\ ~enableColorTint
    /\ Len(challenge.correctSectors) = 5
    /\ \A i \in CorrectSet : Entry(i).color = "red" /\ Entry(i).shape = "square"
    /\ \E i \in Sectors \ CorrectSet : ~Entry(i).hasWatermark

\* a decoy that cannot be told from a target sector
LooksLikeTarget(i) ==
    /\ Entry(i).hasWatermark
    /\ Entry(i).shape = challenge.shape
    /\ Entry(i).color = TargetColor(challenge)

\* C19: the entry of a sector outside correctSectors is what the random
\* draws gave, the target's own shape and colour with a watermark included,
\* and a submission that includes a sector outside correctSectors is scored
\* incorrect, whatever its entry showed.
C19_DecoysNotFiltered ==
    /\ [](shapeValidation.mounted =>
             \A i \in Sectors \ CorrectSet :
                /\ Entry(i).hasWatermark = WatermarkNoise(shapeValidation.randoms.noise)
                /\ Entry(i).shape
                      = At(shapes, RandomIndex(shapeValidation.randoms.shape, 3))
                /\ Entry(i).color
                      = At(colors, RandomIndex(shapeValidation.randoms.color, 3)))
    /\ [][shapeValidation.mounted /\ log'.op = "attempt"
             /\ (\E i \in Range(log'.selected) \ CorrectSet : LooksLikeTarget(i))
          => ~validationSuccess']_vars

C19_Witness ==
    /\ shapeValidation.mounted
    /\ enableColorTint
    /\ challenge.color = "green"
    /\ \E i \in Sectors \ CorrectSet : LooksLikeTarget(i)

\* C17 as claimed: a capture that has entered its loop leaves it and the
\* session reaches the validation step, whatever the random source returns.
C17_CaptureCompletes == capture.running ~> currentStep = "validation"

\* C15: the score a submission received is the score the same selection
\* gets against the same challenge in a run with any other maxAttempts and
\* attemptCount, that is under any other toleranceLevel.
C15_ScoreIgnoresTolerance ==
    Scored =>
        \A m \in 1 .. MaxMaxAttempts : \A a \in 0 .. (m - 1) :
            score([challenge |-> challenge, attemptCount |-> a, maxAttempts |-> m],
                  log.selected) = validationSuccess

\* a near miss: every correct sector and one more, with tolerance left
C15_Witness ==
    /\ Scored
    /\ maxAttempts = 2
    /\ attemptCount = 1
    /\ CorrectSet \subseteq SelectedSet
    /\ Cardinality(SelectedSet \ CorrectSet) = 1
    /\ ~validationSuccess

\* C22: validationSuccess and isBlocked are never both true, each is true
\* only in the result step, and isBlocked once set is never cleared: no
\* control is enabled in a blocked session and no step resets the flag.
C22_FlagsEncodeOnePhase ==
    /\ [](/\ ~(validationSuccess /\ isBlocked)
          /\ validationSuccess => currentStep = "result"
          /\ isBlocked => currentStep = "result" /\ ~ENABLED Next)
    /\ [][isBlocked => isBlocked']_vars

C22_Witness ==
    /\ isBlocked
    /\ ~validationSuccess
    /\ currentStep = "result"
    /\ maxAttempts = 1

\* C23: in the validation step capturedData and challenge are both set, in
\* the camera step both are null, and in the result step the challenge that
\* was scored is still set.
C23_StepDataConsistency ==
    /\ currentStep = "validation" => capturedData # NullData /\ Generated
    /\ currentStep = "camera" => capturedData = NullData /\ ~Generated
    /\ currentStep = "result" => Scored /\ Generated /\ capturedData # NullData

C23_Witness ==
    /\ currentStep = "result"
    /\ Generated
    /\ Phase = "retry-available"
    /\ attemptCount = 1
    /\ maxAttempts = 3

\* C21: attemptCount never exceeds maxAttempts, a result with attemptCount =
\* maxAttempts is success or blocked, and when the user keeps capturing,
\* submitting and retrying the session reaches success or blocked with
\* onComplete invoked.
C21_BoundedCompletion ==
    /\ [](/\ attemptCount <= maxAttempts
          /\ currentStep = "result" /\ attemptCount = maxAttempts
                => Phase \in TerminalPhases)
    /\ <>(Phase \in TerminalPhases /\ Len(completions) = 1)

C21_Witness ==
    /\ Phase = "blocked"
    /\ maxAttempts = 2
    /\ attemptCount = 2
    /\ completions = <<[success |-> FALSE, attempts |-> 2]>>

\* the number of entries of arr equal to x
Occurrences(arr, x) == Cardinality({i \in DOMAIN arr : arr[i] = x})

\* C24: a submitted list scores exactly when it is a permutation of
\* correctSectors: every correct sector once and nothing else, in any order;
\* a list with a repeated entry does not score even when its set of entries
\* is the set of correct sectors.
C24_ScoreIsPermutation ==
    Scored =>
        (validationSuccess <=>
            /\ \A x \in CorrectSet : Occurrences(log.selected, x) = 1
            /\ SelectedSet \subseteq CorrectSet)

C24_Witness ==
    /\ Scored
    /\ SelectedSet = CorrectSet
    /\ Len(log.selected) = Len(challenge.correctSectors) + 1
    /\ ~validationSuccess

\* C25: the selection built by clicks is a duplicate-free list of indices
\* in 0..15; a click toggles the membership of one sector (so two clicks on
\* it restore the set); a submission hands over the selection, which is then
\* non-empty and duplicate-free.
C25_SelectionByClicks ==
    /\ [](Distinct(viewSelection) /\ Range(viewSelection) \subseteq 0 .. 15)
    /\ [][/\ viewSelection' # viewSelection /\ currentStep' = "validation" =>
                \E s \in 0 .. 15 :
                    \/ /\ s \notin Range(viewSelection)
                       /\ Range(viewSelection') = Range(viewSelection) \cup {s}
                    \/ /\ s \in Range(viewSelection)
                       /\ Range(viewSelection') = Range(viewSelection) \ {s}
          /\ currentStep = "validation" /\ currentStep' = "result" =>
                /\ log'.selected = viewSelection
                /\ log'.selected # <<>>
                /\ Distinct(log'.selected)]_vars

\* a submitted selection in an order that only clicks build
C25_Witness ==
    /\ Scored
    /\ Len(log.selected) = 3
    /\ log.selected[1] > log.selected[2]
    /\ log.selected[2] < log.selected[3]

====
